---- MODULE Spec2Model ----
(***************************************************************************)
(* db-alchemy-core: the connection(...) session wrapper                    *)
(* (core/database.py) and the BaseRepository CRUD operations               *)
(* (repositories/abstract_repo.py) running under it, against a relational  *)
(* store holding one record type (id, name, email; email unique).          *)
(***************************************************************************)
EXTENDS Integers, Sequences, FiniteSets, TLC

\* ------------------------------------------------------------------ bounds
MaxTasks == 2      \* callers that may have a wrapped operation in flight
MaxCalls == 3      \* invocations of wrapped operations in one behaviour
MaxId == 2         \* values the autoincrement id sequence hands out
MaxRows == 3       \* rows the store holds when only queries run against it

Tasks == 1..MaxTasks

\* ------------------------------------------------------------ record type
\* The columns of the record type, as keys of _model_columns_map.
Catalog == <<"id", "name", "email">>

InCatalog(field) == \E k \in 1..Len(Catalog) : Catalog[k] = field

Names == {"Alice", "Bob"}
Emails == {"a1", "a2"}

\* The strings the store holds, in the order the store compares them.
Collation == <<"Alice", "Bob", "a1", "a2", "a3", "a4">>

\* A sparse payload (model_dump(exclude_unset=True)): the set fields, in the
\* schema's field order, each with its value.  A value is a scalar or a list.
Scalar(v) == [isList |-> FALSE, items |-> <<v>>]
ListOf(s) == [isList |-> TRUE, items |-> s]
Set1(f, v) == <<[field |-> f, value |-> v]>>

\* An optional argument: given = FALSE is Python's None.
NotGiven == [given |-> FALSE, fields |-> << >>]
Given(p) == [given |-> TRUE, fields |-> p]

\* The filter payloads the callers pass.
FilterPayloads ==
  { << >>,
    Set1("name", Scalar("Alice")),
    Set1("name", Scalar("Bob")),
    Set1("email", Scalar("a1")),
    Set1("name", ListOf(<< >>)),
    Set1("name", ListOf(<<"Alice", "Bob">>)),
    Set1("name", Scalar("Alice")) \o Set1("email", Scalar("a2")),
    Set1("name", ListOf(<< >>)) \o Set1("email", Scalar("a1")),
    Set1("invalid_field", Scalar("invalid")),
    Set1("name", Scalar("Alice")) \o Set1("invalid_field", Scalar("invalid")),
    Set1("invalid_field", Scalar("invalid")) \o Set1("name", Scalar("Alice")) }

FilterArgs == {NotGiven} \cup {Given(p) : p \in FilterPayloads}

\* The values payloads of update: name or email set, nothing set, or a field
\* set that the record type does not have.
UpdateValues ==
  { << >>,
    Set1("name", Scalar("Bob")),
    Set1("email", Scalar("a1")),
    Set1("invalid_field", Scalar("invalid")) }

\* The values payloads of create: every non-id column set, one payload or a
\* batch; or a field set that the record type does not have.
NewRow(n, e) == Set1("name", Scalar(n)) \o Set1("email", Scalar(e))
CreateValues ==
  { <<NewRow(n, e)>> : n \in Names, e \in Emails }
    \cup { <<NewRow("Alice", "a1"), NewRow("Alice", "a2")>>,
           <<NewRow("Bob", "a2"), NewRow("Alice", "a2")>>,
           <<Set1("invalid_field", Scalar("invalid"))>> }

\* stmt of execute_sql: a query, a DELETE that returns the ids it removed and
\* a DELETE that returns no rows.
RawStatements ==
  {"SELECT * FROM users", "DELETE FROM users RETURNING id", "DELETE FROM users"}

\* order_by of get_one and get_many: None, one string or a list of strings.
\* A string is the sequence of its pieces, a leading '-' a piece of its own:
\* "-name" is <<"-", "name">>, "" is << >>.
NoOrder == [kind |-> "None", text |-> << >>, items |-> << >>]
OrderStr(text) == [kind |-> "str", text |-> text, items |-> << >>]
OrderList(items) == [kind |-> "list", text |-> << >>, items |-> items]
OrderByArgs ==
  { NoOrder, OrderStr(<<"name">>), OrderStr(<<"-", "id">>), OrderList(<< >>),
    OrderList(<< <<"name">>, <<"-", "id">> >>),
    OrderList(<< <<"-", "name">>, <<"invalid_field">>, <<"id">> >>),
    OrderList(<< <<"-", "invalid_field">>, <<"-", "email">> >>) }

\* limit and offset of get_many: None or an integer.
NoInt == [given |-> FALSE, n |-> 0]
IntOf(n) == [given |-> TRUE, n |-> n]
LimitArgs == {NoInt} \cup {IntOf(n) : n \in 0..2}
OffsetArgs == {NoInt} \cup {IntOf(n) : n \in 0..1}

\* id arguments: 0 stands for None (ids start at 1).
IdArgs == 0..MaxId

\* group_by of get_many: a list of field names; a single string is wrapped
\* into a one-element list, None and the empty list are both falsy.
GroupByArgs ==
  { << >>, <<"name">>, <<"email">>, <<"name", "email">>, <<"invalid_field">> }

\* aggregations of get_many: a dict field -> function name, in insertion
\* order; None and the empty dict are both falsy.
Aggregate(f, func) == <<[field |-> f, func |-> func]>>
AggregationArgs ==
  { << >>,
    Aggregate("id", "count"),
    Aggregate("id", "COUNT"),
    Aggregate("id", "count") \o Aggregate("name", "max"),
    Aggregate("id", "min"),
    Aggregate("id", "sum") \o Aggregate("invalid_field", "count"),
    Aggregate("id", "avg"),
    Aggregate("name", "sum"),
    Aggregate("email", "invalid_func"),
    Aggregate("id", "count") \o Aggregate("email", "invalid_func"),
    Aggregate("invalid_field", "invalid_func"),
    Aggregate("invalid_field", "count") }

\* having_filters of get_many.
HavingArgs ==
  { NotGiven,
    Given(Set1("name", Scalar("Alice"))),
    Given(Set1("id_count", Scalar("5"))) }

\* ------------------------------------------------------------- exceptions
NoExc == "None"

\* sqlalchemy.exc.SQLAlchemyError and its subclasses: what the wrapper's
\* `except SQLAlchemyError` clause catches.
SQLAlchemyErrors ==
  {"OperationalError", "IntegrityError", "MultipleResultsFound",
   "CompileError", "ProgrammingError", "ResourceClosedError"}

\* DBConnectException and its subclasses (core/exc.py): plain Exceptions.
DBConnectExceptions ==
  {"NotFoundError", "EmptyFilterError", "InvalidFieldError",
   "EmptyValueError", "UnknowAggregationFunc"}

IsSQLAlchemyError(exc) == exc \in SQLAlchemyErrors

\* ------------------------------------------------------------------ store
\* A table is a set of rows [id, name, email]; id is the primary key and
\* email carries a unique constraint (tests/test_models/user.py).
Unique(table) ==
  \A r1, r2 \in table : (r1.id = r2.id \/ r1.email = r2.email) => r1 = r2

\* A predicate of a WHERE clause: column == value, or column IN (values).
Eq(f, v) == [field |-> f, op |-> "eq", items |-> <<v>>]
In_asEq(f, vs) == [field |-> f, op |-> "eq", items |-> vs]
In(f, vs) == [field |-> f, op |-> "in", items |-> vs]

Holds(row, c) ==
  IF c.op = "eq" THEN row[c.field] = c.items[1]
  ELSE \E k \in 1..Len(c.items) : row[c.field] = c.items[k]

\* where(*conditions): the conjunction; no condition at all matches every row.
Matching(table, where) ==
  {r \in table : \A k \in 1..Len(where) : Holds(r, where[k])}

SetFields_ignores(row, values) == row

RECURSIVE SetFields(_, _)
SetFields(row, values) ==
  IF values = << >> THEN row
  ELSE SetFields([row EXCEPT ![Head(values).field] = Head(values).value.items[1]],
                 Tail(values))

InsertRows_firstOnly(payloads, firstId) ==
  {[id |-> firstId, name |-> Head(payloads)[1].value.items[1],
    email |-> Head(payloads)[2].value.items[1]]}

RECURSIVE InsertRows(_, _)
InsertRows(payloads, firstId) ==
  IF payloads = << >> THEN {}
  ELSE {SetFields([id |-> firstId, name |-> "", email |-> ""], Head(payloads))}
         \cup InsertRows(Tail(payloads), firstId + 1)

\* insert(...).values(...) / update(...).values(...) take any key; a key that
\* is no column of the table is left unconsumed when session.execute compiles
\* the statement, which raises sqlalchemy.exc.CompileError.
Unconsumed(values) ==
  \E k \in 1..Len(values) : ~InCatalog(values[k].field)

\* A statement handed to session.execute.
NoStmt ==
  [kind |-> "none", columns |-> << >>, where |-> << >>, group_by |-> << >>,
   having |-> << >>, order_by |-> << >>, offset |-> 0, limit |-> 0]
Stmt(kind, where) == [NoStmt EXCEPT !.kind = kind, !.where = where]

\* A column of a select list: a model column under its own name, or an
\* aggregate func.<agg>(column).label(label).
Col(field) == [agg |-> "none", field |-> field, label |-> field]
Agg(agg, field, label) == [agg |-> agg, field |-> field, label |-> label]

\* select(*cls._get_model_columns().values())
AllColumns == [k \in 1..Len(Catalog) |-> Col(Catalog[k])]

\* select(*columns).where(...)
Select(columns, where) == [Stmt("select", where) EXCEPT !.columns = columns]

\* ----------------------------------------------------------- FilterBuilder
\* _build_conditions: one predicate per set field, InvalidFieldError at the
\* first set field that is no column.
RECURSIVE _build_conditions_partial(_)
_build_conditions_partial(filter) ==
  IF filter = << >> THEN [exc |-> NoExc, conditions |-> << >>]
  ELSE LET field == Head(filter).field
           value == Head(filter).value
           rest == _build_conditions_partial(Tail(filter))
       IN IF ~InCatalog(field) \/ (value.isList /\ Len(value.items) = 0)
          THEN rest
          ELSE [exc |-> NoExc,
                conditions |-> (IF value.isList THEN <<In(field, value.items)>>
                                ELSE <<Eq(field, value.items[1])>>)
                               \o rest.conditions]

RECURSIVE _build_conditions(_)
_build_conditions(filter) ==
  IF filter = << >> THEN [exc |-> NoExc, conditions |-> << >>]
  ELSE LET field == Head(filter).field
           value == Head(filter).value
       IN IF ~InCatalog(field)
          THEN [exc |-> "InvalidFieldError", conditions |-> << >>]
          ELSE LET rest == _build_conditions(Tail(filter))
                   own == IF value.isList
                          THEN IF Len(value.items) = 0 THEN << >>
                               ELSE <<In(field, value.items)>>
                          ELSE <<Eq(field, value.items[1])>>
               IN IF rest.exc # NoExc THEN rest
                  ELSE [exc |-> NoExc, conditions |-> own \o rest.conditions]

\* ------------------------------------------------------ method outcomes
\* What one call of a repository method does: the exception it raises (or
\* None), its return value (kind: "none" | "count" | "row" | "rows"), the
\* statement it handed to session.execute (executed = FALSE: none), that
\* statement's rowcount (failed = TRUE: session.execute raised), and the
\* table as the session's transaction sees it afterwards (wrote = TRUE: the
\* transaction holds uncommitted changes).
Raised(exc, view) ==
  [exc |-> exc, kind |-> "none", count |-> 0, rows |-> {}, stmt |-> NoStmt,
   executed |-> FALSE, failed |-> FALSE, rowcount |-> 0, table |-> view,
   wrote |-> FALSE, list |-> << >>]

\* session.execute(stmt) itself raised exc (a store-layer failure).
ExecuteFailed(exc, stmt, view) ==
  [exc |-> exc, kind |-> "none", count |-> 0, rows |-> {}, stmt |-> stmt,
   executed |-> TRUE, failed |-> TRUE, rowcount |-> 0, table |-> view,
   wrote |-> FALSE, list |-> << >>]

\* The method raised exc after session.execute(stmt) had returned.
RaisedAfter(exc, stmt, view) ==
  [exc |-> exc, kind |-> "none", count |-> 0, rows |-> {}, stmt |-> stmt,
   executed |-> TRUE, failed |-> FALSE, rowcount |-> 0, table |-> view,
   wrote |-> FALSE, list |-> << >>]

\* `if result.rowcount > 0: return result.rowcount / else: raise NotFoundError`
RowcountOrNotFound_never(rowcount) == NoExc
RowcountOrNotFound(rowcount) == IF rowcount > 0 THEN NoExc ELSE "NotFoundError"

Wrote(stmt, rowcount, table) ==
  [exc |-> RowcountOrNotFound(rowcount),
   kind |-> IF rowcount > 0 THEN "count" ELSE "none",
   count |-> rowcount, rows |-> {}, stmt |-> stmt, executed |-> TRUE,
   failed |-> FALSE, rowcount |-> rowcount, table |-> table,
   wrote |-> rowcount > 0, list |-> << >>]

Selected(kind, rows, stmt, view) ==
  [exc |-> NoExc, kind |-> kind, count |-> 0, rows |-> rows, stmt |-> stmt,
   executed |-> TRUE, failed |-> FALSE, rowcount |-> 0, table |-> view,
   wrote |-> FALSE, list |-> << >>]

\* DELETE ... WHERE: rowcount is the number of rows removed.
ExecDelete(stmt, view, fail) ==
  IF fail THEN ExecuteFailed("OperationalError", stmt, view)
  ELSE LET hit == Matching(view, stmt.where)
       IN Wrote(stmt, Cardinality(hit), view \ hit)

\* UPDATE ... SET ... WHERE: rowcount is the number of rows matched; the
\* statement fails as a whole when its result breaks a unique constraint.
ExecUpdate(stmt, values, view, fail) ==
  IF fail THEN ExecuteFailed("OperationalError", stmt, view)
  ELSE IF Unconsumed(values) THEN ExecuteFailed("CompileError", stmt, view)
  ELSE LET hit == Matching(view, stmt.where)
           after == (view \ hit) \cup {SetFields(r, values) : r \in hit}
       IN IF Cardinality(after) # Cardinality(view) \/ ~Unique(after)
          THEN ExecuteFailed("IntegrityError", stmt, view)
          ELSE Wrote(stmt, Cardinality(hit), after)

\* INSERT ... VALUES (...), (...): one batch, ids from the sequence.
ExecInsert(stmt, payloads, firstId, view, fail) ==
  IF fail THEN ExecuteFailed("OperationalError", stmt, view)
  ELSE IF \E k \in 1..Len(payloads) : Unconsumed(payloads[k])
  THEN ExecuteFailed("CompileError", stmt, view)
  ELSE LET new == InsertRows(payloads, firstId)
           after == view \cup new
       IN IF Cardinality(new) # Len(payloads) \/ ~Unique(after)
          THEN ExecuteFailed("IntegrityError", stmt, view)
          ELSE Wrote(stmt, Len(payloads), after)

\* -------------------------------------------------------------- Repository
\* BaseRepository.execute_sql(stmt): session.execute(text(stmt)), then
\* `[dict(row) for row in result.mappings()]`; the result of a statement that
\* returns no rows is closed and raises ResourceClosedError when read.
execute_sql(stmt, view, fail) ==
  LET text == Stmt(IF stmt = "SELECT * FROM users" THEN "select" ELSE "delete", << >>)
  IN IF fail THEN ExecuteFailed("OperationalError", text, view)
     ELSE IF text.kind = "select" THEN Selected("mappings", view, text, view)
     ELSE IF stmt = "DELETE FROM users RETURNING id"
     THEN [Selected("mappings", {[id |-> r.id] : r \in view}, text, {})
             EXCEPT !.rowcount = Cardinality(view), !.wrote = TRUE]
     ELSE [RaisedAfter("ResourceClosedError", text, {})
             EXCEPT !.rowcount = Cardinality(view), !.wrote = TRUE]

delete_filterFirst(id, filters, view, fail) ==
  IF filters.given
  THEN LET built == _build_conditions(filters.fields)
       IN IF built.exc # NoExc THEN Raised(built.exc, view)
          ELSE ExecDelete(Stmt("delete", built.conditions), view, fail)
  ELSE IF id # 0
  THEN ExecDelete(Stmt("delete", <<Eq("id", id)>>), view, fail)
  ELSE Raised("EmptyFilterError", view)

\* BaseRepository.delete(id, filters)
delete(id, filters, view, fail) ==
  IF id # 0
  THEN ExecDelete(Stmt("delete", <<Eq("id", id)>>), view, fail)
  ELSE IF filters.given
       THEN LET built == _build_conditions(filters.fields)
            IN IF built.exc # NoExc THEN Raised(built.exc, view)
               ELSE ExecDelete(Stmt("delete", built.conditions), view, fail)
       ELSE Raised("EmptyFilterError", view)

\* `if not values_dict:` of update
EmptyValues_never(values) == FALSE
EmptyValues(values) == values = << >>

\* BaseRepository.update(values, id, filters)
update(values, id, filters, view, fail) ==
  IF EmptyValues(values) THEN Raised("EmptyValueError", view)
  ELSE IF id # 0
  THEN ExecUpdate(Stmt("update", <<Eq("id", id)>>), values, view, fail)
  ELSE IF filters.given
       THEN LET built == _build_conditions(filters.fields)
            IN IF built.exc # NoExc THEN Raised(built.exc, view)
               ELSE ExecUpdate(Stmt("update", built.conditions), values, view, fail)
       ELSE Raised("EmptyFilterError", view)

\* BaseRepository.create(values): a single payload or a list of payloads.
create(payloads, firstId, view, fail) ==
  ExecInsert(Stmt("insert", << >>), payloads, firstId, view, fail)

\* _apply_filters(query, filters): query.where(and_(*conditions)) when the
\* filter builds to at least one condition, the query unchanged otherwise.
_apply_filters_ignores(where, filters) == [exc |-> NoExc, where |-> where]
_apply_filters(where, filters) ==
  LET built == _build_conditions(filters)
  IN IF built.exc # NoExc THEN [exc |-> built.exc, where |-> where]
     ELSE [exc |-> NoExc, where |-> where \o built.conditions]

\* str.lower() on the function names the callers pass.
Lower(func) == IF func = "COUNT" THEN "count" ELSE func

AggregationFunctions == {"count", "sum", "avg", "min", "max"}

\* label(f"{field}_{func_name}")
Label_fieldOnly(field, func) == field
Label(field, func) == field \o "_" \o func

\* _validate_fields: the fields as given, InvalidFieldError when one of them
\* is no column.
_validate_fields(fields) ==
  IF \E k \in 1..Len(fields) : ~InCatalog(fields[k])
  THEN [exc |-> "InvalidFieldError", fields |-> << >>]
  ELSE [exc |-> NoExc, fields |-> fields]

\* The loop over aggregations.items() of _build_grouped_query: an entry keyed
\* by a column adds a labelled aggregate, or raises on a function name it
\* does not know; an entry keyed by anything else adds nothing.
RECURSIVE AggregateColumns(_)
AggregateColumns(aggregations) ==
  IF aggregations = << >> THEN [exc |-> NoExc, columns |-> << >>]
  ELSE LET field == Head(aggregations).field
           func_name == Head(aggregations).func
           rest == AggregateColumns(Tail(aggregations))
       IN IF ~InCatalog(field) THEN rest
          ELSE IF Lower(func_name) \notin AggregationFunctions
          THEN [exc |-> "UnknowAggregationFunc", columns |-> << >>]
          ELSE IF rest.exc # NoExc THEN rest
          ELSE [exc |-> NoExc,
                columns |-> <<Agg(Lower(func_name), field, Label(field, func_name))>>
                              \o rest.columns]

\* _build_grouped_query(group_by, aggregations): the select list.
_build_grouped_query(group_by, aggregations) ==
  LET valid == IF group_by # << >> THEN _validate_fields(group_by)
               ELSE [exc |-> NoExc, fields |-> << >>]
      aggs == IF aggregations # << >> THEN AggregateColumns(aggregations)
              ELSE [exc |-> NoExc, columns |-> << >>]
      columns == [k \in 1..Len(valid.fields) |-> Col(valid.fields[k])]
                   \o aggs.columns
  IN IF valid.exc # NoExc THEN [exc |-> valid.exc, columns |-> << >>]
     ELSE IF aggs.exc # NoExc THEN [exc |-> aggs.exc, columns |-> << >>]
     ELSE [exc |-> NoExc,
           columns |-> IF aggregations # << >> /\ columns = << >>
                       THEN AllColumns ELSE columns]

\* _apply_grouping(query, group_by): group by the fields that are columns.
_apply_grouping(stmt, group_by) ==
  [stmt EXCEPT !.group_by = SelectSeq(group_by, InCatalog)]

\* _apply_having_filters(query, having_filters): one `column == value` per
\* set field that is a column; the other set fields are passed over.
RECURSIVE HavingConditions(_)
HavingConditions(filter) ==
  IF filter = << >> THEN << >>
  ELSE (IF InCatalog(Head(filter).field)
        THEN <<Eq(Head(filter).field, Head(filter).value.items[1])>>
        ELSE << >>) \o HavingConditions(Tail(filter))

_apply_having_filters(stmt, having_filters) ==
  [stmt EXCEPT !.having = HavingConditions(having_filters)]

\* ---------------------------------------------- the store's SELECT
Rank(v) == CHOOSE k \in 1..Len(Collation) : Collation[k] = v

\* v is not above w in the order of the column's type.
Leq(field, v, w) == IF field = "id" THEN v <= w ELSE Rank(v) <= Rank(w)

RECURSIVE SumOf(_, _)
SumOf(field, rows) ==
  IF rows = {} THEN 0
  ELSE LET r == CHOOSE x \in rows : TRUE
       IN r[field] + SumOf(field, rows \ {r})

\* The value of an aggregate over the rows of one group ("None": SQL NULL;
\* an average is kept as <<sum, count>>).  No column is nullable.
AggregateValue(agg, field, rows) ==
  LET values == {r[field] : r \in rows}
  IN IF agg = "count" THEN Cardinality(rows)
     ELSE IF rows = {} THEN "None"
     ELSE IF agg = "max"
     THEN CHOOSE m \in values : \A v \in values : Leq(field, v, m)
     ELSE IF agg = "min"
     THEN CHOOSE m \in values : \A v \in values : Leq(field, m, v)
     ELSE IF agg = "sum" THEN SumOf(field, rows)
     ELSE <<SumOf(field, rows), Cardinality(rows)>>

\* `if order_by:` None, "" and [] are falsy.
OrderGiven(order_by) ==
  \/ (order_by.kind = "str" /\ order_by.text # << >>)
  \/ (order_by.kind = "list" /\ order_by.items # << >>)

\* The sort keys of the entries, in sequence: '-' in front means descending,
\* an entry whose field is no column adds no key.
RECURSIVE SortKeys_ascending(_)
SortKeys_ascending(entries) ==
  IF entries = << >> THEN << >>
  ELSE LET order_field == Head(entries)
           desc == order_field # << >> /\ Head(order_field) = "-"
           field == IF desc THEN Tail(order_field) ELSE order_field
       IN (IF Len(field) = 1 /\ InCatalog(field[1])
           THEN <<[field |-> field[1], desc |-> FALSE]>> ELSE << >>)
            \o SortKeys_ascending(Tail(entries))

RECURSIVE SortKeys(_)
SortKeys(entries) ==
  IF entries = << >> THEN << >>
  ELSE LET order_field == Head(entries)
           desc == order_field # << >> /\ Head(order_field) = "-"
           field == IF desc THEN Tail(order_field) ELSE order_field
       IN (IF Len(field) = 1 /\ InCatalog(field[1])
           THEN <<[field |-> field[1], desc |-> desc]>> ELSE << >>)
            \o SortKeys(Tail(entries))

\* _apply_ordering(query, order_by): a string is a list of one entry; one
\* query.order_by(...) per entry that names a column.
_apply_ordering(query, order_by) ==
  LET entries == IF order_by.kind = "str" THEN <<order_by.text>> ELSE order_by.items
  IN [query EXCEPT !.order_by = @ \o SortKeys(entries)]

\* The sequences that enumerate a set, each element once.
Orderings(S) ==
  {s \in [1..Cardinality(S) -> S] :
     \A i, j \in 1..Cardinality(S) : i # j => s[i] # s[j]}

\* ORDER BY: u comes before v when it is first on the first key they differ
\* on; rows equal on every key come in the order the store read them.
Precedes(u, v, keys) ==
  LET differ == {k \in 1..Len(keys) : u.rec[keys[k].field] # v.rec[keys[k].field]}
  IN IF differ = {} THEN u.at < v.at
     ELSE LET k == CHOOSE d \in differ : \A o \in differ : d <= o
              f == keys[k].field
          IN IF keys[k].desc THEN Leq(f, v.rec[f], u.rec[f])
             ELSE Leq(f, u.rec[f], v.rec[f])

Ordered(units, keys) ==
  LET sorted == CHOOSE s \in Orderings(units) :
                  \A i, j \in 1..Cardinality(units) :
                    i < j => Precedes(s[i], s[j], keys)
  IN [k \in 1..Cardinality(units) |-> sorted[k].rec]

\* OFFSET and LIMIT (0: the statement has no such clause).
Paged(list, offset, limit) ==
  LET last == IF limit = 0 \/ offset + limit > Len(list) THEN Len(list)
              ELSE offset + limit
  IN SubSeq(list, offset + 1, last)

\* What the store makes of a SELECT it cannot run: sum() or avg() of a text
\* column, a bare column next to an aggregate without GROUP BY, a select-list,
\* HAVING or ORDER BY column that is not grouped.
Rejected(stmt) ==
  LET cols == {stmt.columns[k] : k \in 1..Len(stmt.columns)}
      grouped == {stmt.group_by[k] : k \in 1..Len(stmt.group_by)}
      aggregated == {c \in cols : c.agg # "none"}
      bare == {c.field : c \in cols \ aggregated}
                \cup {stmt.having[k].field : k \in 1..Len(stmt.having)}
                \cup {stmt.order_by[k].field : k \in 1..Len(stmt.order_by)}
  IN \/ \E c \in aggregated : c.agg \in {"sum", "avg"} /\ c.field # "id"
     \/ (aggregated # {} \/ grouped # {}) /\ ~(bare \subseteq grouped)

\* The records of result.all(): one per matching row, or one per group of
\* matching rows that passes HAVING, or one in all for aggregates without
\* GROUP BY; each keyed by the labels of the select list; in the order of
\* ORDER BY, cut by OFFSET and LIMIT.  `scan` is the order in which the store
\* reads the table; a group stands where its first row does.
Fetch(stmt, view, scan) ==
  LET cols == {stmt.columns[k] : k \in 1..Len(stmt.columns)}
      labels == {c.label : c \in cols}
      ColOf(l) == CHOOSE c \in cols : c.label = l
      matching == Matching(view, stmt.where)
      Record(key, members) ==
        [l \in labels |->
           IF ColOf(l).agg = "none" THEN key[ColOf(l).field]
           ELSE AggregateValue(ColOf(l).agg, ColOf(l).field, members)]
      KeyOf(r) == [f \in {stmt.group_by[k] : k \in 1..Len(stmt.group_by)} |-> r[f]]
      keys == {KeyOf(r) : r \in matching}
      passing == {key \in keys :
                    \A k \in 1..Len(stmt.having) : Holds(key, stmt.having[k])}
      Members(key) == {r \in matching : KeyOf(r) = key}
      At(members) == CHOOSE k \in 1..Len(scan) :
                       scan[k] \in members /\ \A j \in 1..(k - 1) : scan[j] \notin members
      units == IF stmt.group_by # << >>
               THEN {[rec |-> Record(key, Members(key)), at |-> At(Members(key))] :
                       key \in passing}
               ELSE IF \E c \in cols : c.agg # "none"
               THEN {[rec |-> Record(<< >>, matching), at |-> 0]}
               ELSE {[rec |-> Record(r, {r}), at |-> At({r})] : r \in matching}
      list == Paged(Ordered(units, stmt.order_by), stmt.offset, stmt.limit)
  IN IF Rejected(stmt) THEN [exc |-> "ProgrammingError", rows |-> {}, list |-> << >>]
     ELSE [exc |-> NoExc, rows |-> {list[k] : k \in 1..Len(list)}, list |-> list]

\* `query.limit(1)` of a get_one that is not strict.
Capped_never(strict) == 0
Capped(strict) == IF strict THEN 0 ELSE 1

\* BaseRepository.get_one(id, filters, order_by, strict) with select_fields
\* left at None.  `scan` is the order in which the store reads the table.
get_one(id, filters, order_by, strict, view, fail, scan) ==
  IF id # 0 /\ ~filters.given /\ order_by.kind = "None"
  THEN LET stmt == Select(AllColumns, <<Eq("id", id)>>)
           found == Matching(view, stmt.where)
       IN IF fail THEN ExecuteFailed("OperationalError", stmt, view)
          ELSE IF Cardinality(found) > 1
          THEN RaisedAfter("MultipleResultsFound", stmt, view)
          ELSE Selected(IF found = {} THEN "none" ELSE "row", found, stmt, view)
  ELSE LET byId == IF id # 0 THEN <<Eq("id", id)>> ELSE << >>
           \* `if filters:` a BaseModel instance is truthy whatever it has set
           applied == IF filters.given THEN _apply_filters(byId, filters.fields)
                      ELSE [exc |-> NoExc, where |-> byId]
           filtered == Select(AllColumns, applied.where)
           ordered == IF OrderGiven(order_by) THEN _apply_ordering(filtered, order_by)
                      ELSE filtered
           stmt == [ordered EXCEPT !.limit = Capped(strict)]
           fetched == Fetch(stmt, view, scan)
       IN IF applied.exc # NoExc THEN Raised(applied.exc, view)
          ELSE IF fail THEN ExecuteFailed("OperationalError", stmt, view)
          ELSE IF strict
          THEN IF Len(fetched.list) > 1
               THEN RaisedAfter("MultipleResultsFound", stmt, view)
               ELSE [Selected(IF fetched.list = << >> THEN "none" ELSE "row",
                              fetched.rows, stmt, view)
                       EXCEPT !.list = fetched.list]
          ELSE IF fetched.list = << >> THEN Selected("none", {}, stmt, view)
               ELSE [Selected("row", {fetched.list[1]}, stmt, view)
                       EXCEPT !.list = <<fetched.list[1]>>]

\* `if not rows: return []`
NoRows_notFound(rows) == IF rows = {} THEN "NotFoundError" ELSE NoExc
NoRows(rows) == NoExc

\* `if limit:` and `if offset:` None and 0 are falsy.
IntGiven(int) == int.given /\ int.n # 0

\* BaseRepository.get_many(filters, order_by, limit, offset, group_by,
\* having_filters, aggregations), select_fields and is_distinct at their
\* defaults; q carries the arguments.
get_many(q, view, fail, scan) ==
  LET built == IF q.group_by # << >> \/ q.aggregations # << >>
               THEN _build_grouped_query(q.group_by, q.aggregations)
               ELSE [exc |-> NoExc, columns |-> AllColumns]
      \* `if filters:` a BaseModel instance is truthy whatever it has set
      applied == IF q.filters.given THEN _apply_filters(<< >>, q.filters.fields)
                 ELSE [exc |-> NoExc, where |-> << >>]
      selected == Select(built.columns, applied.where)
      grouped == IF q.group_by # << >> THEN _apply_grouping(selected, q.group_by)
                 ELSE selected
      having == IF q.having_filters.given /\ q.group_by # << >>
                THEN _apply_having_filters(grouped, q.having_filters.fields)
                ELSE grouped
      ordered == IF OrderGiven(q.order_by) THEN _apply_ordering(having, q.order_by)
                 ELSE having
      stmt == [ordered EXCEPT
                 !.offset = IF IntGiven(q.offset) THEN q.offset.n ELSE 0,
                 !.limit = IF IntGiven(q.limit) THEN q.limit.n ELSE 0]
      fetched == Fetch(stmt, view, scan)
  IN IF built.exc # NoExc THEN Raised(built.exc, view)
     ELSE IF applied.exc # NoExc THEN Raised(applied.exc, view)
     ELSE IF fail THEN ExecuteFailed("OperationalError", stmt, view)
     ELSE IF fetched.exc # NoExc THEN ExecuteFailed(fetched.exc, stmt, view)
     ELSE IF NoRows(fetched.rows) # NoExc
     THEN RaisedAfter(NoRows(fetched.rows), stmt, view)
     ELSE [Selected("rows", fetched.rows, stmt, view) EXCEPT !.list = fetched.list]

\* ------------------------------------------------------- TransactionScope
VARIABLES
  engine,        \* _engine is not None
  sessionmaker,  \* _async_sessionmaker is not None
  creations,     \* history: the engines and factories created, the calls of
                 \* init_db and of get_session
  committed,     \* the table as committed in the store
  nextId,        \* next value of the id sequence
  nCalls,        \* invocations of wrapped operations so far
  sessions,      \* every session the factory has made, in order of creation
  pc,            \* per task: where its invocation of wrapper stands
  call,          \* per task: its invocation
  created        \* history: the create committed last, until the invocation
                 \* after it has returned

vars ==
  <<engine, sessionmaker, creations, committed, nextId, nCalls, sessions, pc,
    call, created>>

\* The wrapped operations and the commit flag each is decorated with.
Ops == {"execute_sql", "get_one", "get_many", "create", "update", "delete"}
CommitOf_always(op) == TRUE
CommitOf(op) == op \notin {"get_one", "get_many"}

\* isolation_level of connection(...): "None" is Python's None.
IsolationLevels == {"None", "", "SERIALIZABLE"}
Truthy(isolation_level) == isolation_level \notin {"None", ""}

NoTx == [active |-> FALSE, table |-> {}]
NoCreated == [n |-> 0, values |-> << >>, before |-> {}, rows |-> {}]
NoArgs ==
  [stmt |-> "", id |-> 0, filters |-> NotGiven, values |-> << >>, strict |-> TRUE,
   order_by |-> NoOrder, limit |-> NoInt, offset |-> NoInt,
   group_by |-> << >>, having_filters |-> NotGiven, aggregations |-> << >>]
NoCall ==
  [id |-> 0, op |-> "none", isolation_level |-> "None", commit |-> FALSE,
   session |-> 0, invoked |-> FALSE, args |-> NoArgs, pre |-> {},
   out |-> Raised(NoExc, {}), failure |-> NoExc, exc |-> NoExc]

\* What a session does is logged with the invocation that issued it.
Logged(s, what, by, ok) ==
  [sessions EXCEPT ![s].log = Append(@, [op |-> what, by |-> by, ok |-> ok])]

\* `async with _async_sessionmaker() as session`: the factory makes a new
\* session for every call (`made`: the sessions made so far).
AcquiredSession_shared(made) == 1
AcquiredSession(made) == Len(made) + 1

\* The table session s reads: its own uncommitted changes, else the
\* committed table.
View(s) == IF sessions[s].tx.active THEN sessions[s].tx.table ELSE committed

\* A writing statement waits while another transaction holds changes.
LockFree(s) ==
  \A o \in 1..Len(sessions) : o # s => ~sessions[o].tx.active

\* After `result = await method(...)`: commit when it returned and commit is
\* set; the except clause when it raised an SQLAlchemyError; else finally.
AfterMethod_noFinally(exc, commit) ==
  IF exc = NoExc THEN (IF commit THEN "commit" ELSE "close")
  ELSE IF IsSQLAlchemyError(exc) THEN "rollback"
  ELSE "done"
AfterMethod_commitsOnRaise(exc, commit) ==
  IF exc = NoExc \/ ~IsSQLAlchemyError(exc)
  THEN (IF commit THEN "commit" ELSE "close")
  ELSE "rollback"
AfterMethod_catchesAll(exc, commit) ==
  IF exc = NoExc THEN (IF commit THEN "commit" ELSE "close")
  ELSE "rollback"
AfterMethod(exc, commit) ==
  IF exc = NoExc THEN (IF commit THEN "commit" ELSE "close")
  ELSE IF IsSQLAlchemyError(exc) THEN "rollback"
  ELSE "close"

\* After `await session.execute(text("SET TRANSACTION ISOLATION LEVEL ..."))`.
AfterIsolation_ignoresFailure(exc) == "method"
AfterIsolation(exc) ==
  IF exc = NoExc THEN "method"
  ELSE IF IsSQLAlchemyError(exc) THEN "rollback"
  ELSE "close"

\* After `await session.commit()`.
AfterCommit_thenRollback(exc) == "rollback"
AfterCommit(exc) ==
  IF exc = NoExc THEN "close"
  ELSE IF IsSQLAlchemyError(exc) THEN "rollback"
  ELSE "close"

\* The except clause ends in a bare `raise`: the caller gets the failure
\* that entered the clause, whatever session.rollback() did.
AfterRollbackExc_masks(original, rollbackExc) ==
  IF rollbackExc # NoExc THEN rollbackExc ELSE original
AfterRollbackExc(original, rollbackExc) == original

Init ==
  /\ engine = FALSE
  /\ sessionmaker = FALSE
  /\ creations = [engines |-> 0, factories |-> 0, inits |-> 0, gets |-> 0]
  /\ committed = {}
  /\ nextId = 1
  /\ nCalls = 0
  /\ sessions = << >>
  /\ pc = [t \in Tasks |-> "idle"]
  /\ call = [t \in Tasks |-> NoCall]
  /\ created = NoCreated

\* The module globals, with the history of what was created.
Globals == [engine |-> engine, sessionmaker |-> sessionmaker, creations |-> creations]

\* _make_engine(): `if _engine is not None: return _engine`, else
\* create_async_engine(...) into the global.
_make_engine(g) ==
  IF g.engine THEN g
  ELSE [g EXCEPT !.engine = TRUE, !.creations.engines = @ + 1]

\* _make_sessionmaker(): `if _async_sessionmaker is not None: return` it, else
\* async_sessionmaker(bind=_make_engine(), ...) into the global.
_make_sessionmaker_always(g) ==
  [_make_engine(g) EXCEPT !.sessionmaker = TRUE, !.creations.factories = @ + 1]
_make_sessionmaker(g) ==
  IF g.sessionmaker THEN g
  ELSE [_make_engine(g) EXCEPT !.sessionmaker = TRUE, !.creations.factories = @ + 1]

\* init_db(): _make_engine(), then _make_sessionmaker().
init_db(I) ==
  /\ creations.inits < I.inits
  /\ LET g == _make_sessionmaker(_make_engine(Globals))
     IN /\ engine' = g.engine
        /\ sessionmaker' = g.sessionmaker
        /\ creations' = [g.creations EXCEPT !.inits = @ + 1]
  /\ UNCHANGED <<committed, nextId, nCalls, sessions, pc, call, created>>

\* get_session(): _make_sessionmaker(), a session of the factory for the
\* body of the `async with`, closed in `finally`.
get_session(I) ==
  /\ nCalls < I.calls
  /\ nCalls' = nCalls + 1
  /\ LET g == _make_sessionmaker(Globals)
     IN /\ engine' = g.engine
        /\ sessionmaker' = g.sessionmaker
        /\ creations' = [g.creations EXCEPT !.gets = @ + 1]
  /\ sessions' = Append(sessions, [owner |-> nCalls + 1, open |-> FALSE,
                                   tx |-> NoTx, log |-> << >>])
  /\ UNCHANGED <<committed, nextId, pc, call, created>>

\* wrapper(*args, **kwargs) is entered: the session is made.
Call(t, I) ==
  /\ pc[t] = "idle"
  /\ nCalls < I.calls
  /\ Cardinality({u \in Tasks : pc[u] # "idle"}) < I.inflight
  /\ nCalls' = nCalls + 1
  /\ \E op \in I.ops, isolation_level \in I.levels :
       LET c == [NoCall EXCEPT !.id = nCalls + 1, !.op = op,
                               !.isolation_level = isolation_level,
                               !.commit = CommitOf(op)]
           s == AcquiredSession(sessions)
       IN IF ~sessionmaker
          THEN \* None is not callable
               /\ call' = [call EXCEPT ![t] = [c EXCEPT !.exc = "TypeError"]]
               /\ pc' = [pc EXCEPT ![t] = "done"]
               /\ UNCHANGED sessions
          ELSE /\ call' = [call EXCEPT ![t] = [c EXCEPT !.session = s]]
               /\ sessions' =
                    IF s = Len(sessions) + 1
                    THEN Append(sessions, [owner |-> c.id, open |-> TRUE,
                                           tx |-> NoTx, log |-> << >>])
                    ELSE sessions
               /\ pc' = [pc EXCEPT ![t] =
                          IF Truthy(isolation_level) THEN "isolation" ELSE "method"]
  /\ UNCHANGED <<engine, sessionmaker, creations, committed, nextId, created>>

\* `if isolation_level: await session.execute(text("SET TRANSACTION ..."))`
SetIsolation(t) ==
  /\ pc[t] = "isolation"
  /\ \E fail \in BOOLEAN :
       LET exc == IF fail THEN "OperationalError" ELSE NoExc
       IN /\ sessions' = Logged(call[t].session, "set_isolation", call[t].id, ~fail)
          /\ call' = [call EXCEPT ![t].exc = exc, ![t].failure = exc]
          /\ pc' = [pc EXCEPT ![t] = AfterIsolation(exc)]
  /\ UNCHANGED <<engine, sessionmaker, creations, committed, nextId, nCalls, created>>

\* `result = await method(*args, session=session, **kwargs)` ran to its
\* return or raise; `out` is what it did with `args` on the table `view`.
MethodDone(t, args, view, out) ==
  LET s == call[t].session
      logged == IF out.executed
                THEN Logged(s, out.stmt.kind, call[t].id, ~out.failed)
                ELSE sessions
  IN /\ out.wrote => LockFree(s)
     /\ sessions' = IF out.wrote
                    THEN [logged EXCEPT ![s].tx = [active |-> TRUE, table |-> out.table]]
                    ELSE logged
     /\ call' = [call EXCEPT ![t].invoked = TRUE, ![t].args = args,
                             ![t].pre = view, ![t].out = out, ![t].exc = out.exc,
                             ![t].failure = IF IsSQLAlchemyError(out.exc)
                                            THEN out.exc ELSE NoExc]
     /\ pc' = [pc EXCEPT ![t] = AfterMethod(out.exc, call[t].commit)]
     /\ UNCHANGED <<engine, sessionmaker, creations, committed, nCalls, created>>

Method_execute_sql(t, I) ==
  /\ pc[t] = "method" /\ call[t].op = "execute_sql"
  /\ \E stmt \in I.stmts, fail \in BOOLEAN :
       LET view == View(call[t].session)
           args == [NoArgs EXCEPT !.stmt = stmt]
       IN /\ MethodDone(t, args, view, execute_sql(stmt, view, fail))
          /\ UNCHANGED nextId

Method_get_one(t, I) ==
  /\ pc[t] = "method" /\ call[t].op = "get_one"
  /\ \E id \in I.ids, filters \in I.filters, order_by \in I.order_bys,
        strict \in I.stricts, fail \in BOOLEAN :
       LET view == View(call[t].session)
           args == [NoArgs EXCEPT !.id = id, !.filters = filters,
                                  !.order_by = order_by, !.strict = strict]
       IN \E scan \in Orderings(view) :
            /\ MethodDone(t, args, view,
                          get_one(id, filters, order_by, strict, view, fail, scan))
            /\ UNCHANGED nextId

Method_get_many(t, I) ==
  /\ pc[t] = "method" /\ call[t].op = "get_many"
  /\ \E filters \in I.filters, order_by \in I.order_bys, limit \in I.limits,
        offset \in I.offsets, group_by \in I.group_bys,
        having_filters \in I.havings, aggregations \in I.aggregations,
        fail \in BOOLEAN :
       LET view == View(call[t].session)
           args == [NoArgs EXCEPT !.filters = filters, !.order_by = order_by,
                                  !.limit = limit, !.offset = offset,
                                  !.group_by = group_by,
                                  !.having_filters = having_filters,
                                  !.aggregations = aggregations]
       IN \E scan \in Orderings(view) :
            /\ MethodDone(t, args, view, get_many(args, view, fail, scan))
            /\ UNCHANGED nextId

Method_create(t, I) ==
  /\ pc[t] = "method" /\ call[t].op = "create"
  /\ \E payloads \in I.payloads, fail \in BOOLEAN :
       LET view == View(call[t].session)
           args == [NoArgs EXCEPT !.values = payloads]
           out == create(payloads, nextId, view, fail)
       IN /\ nextId + Len(payloads) - 1 <= MaxId
          /\ MethodDone(t, args, view, out)
          /\ nextId' = IF out.wrote THEN nextId + Len(payloads) ELSE nextId

Method_update(t, I) ==
  /\ pc[t] = "method" /\ call[t].op = "update"
  /\ \E values \in I.values, id \in I.ids, filters \in I.filters, fail \in BOOLEAN :
       LET view == View(call[t].session)
           args == [NoArgs EXCEPT !.id = id, !.filters = filters, !.values = values]
       IN /\ MethodDone(t, args, view, update(values, id, filters, view, fail))
          /\ UNCHANGED nextId

Method_delete(t, I) ==
  /\ pc[t] = "method" /\ call[t].op = "delete"
  /\ \E id \in I.ids, filters \in I.filters, fail \in BOOLEAN :
       LET view == View(call[t].session)
           args == [NoArgs EXCEPT !.id = id, !.filters = filters]
       IN /\ MethodDone(t, args, view, delete(id, filters, view, fail))
          /\ UNCHANGED nextId

Commit_failedPublishes(t) ==
  /\ pc[t] = "commit"
  /\ \E fail \in BOOLEAN :
       LET s == call[t].session
           exc == IF fail THEN "OperationalError" ELSE NoExc
           logged == Logged(s, "commit", call[t].id, ~fail)
       IN /\ sessions' = IF fail THEN logged ELSE [logged EXCEPT ![s].tx = NoTx]
          /\ committed' = IF sessions[s].tx.active
                          THEN sessions[s].tx.table ELSE committed
          /\ created' = IF ~fail /\ call[t].op = "create"
                         THEN [n |-> Len(call[t].args.values),
                               values |-> call[t].args.values,
                               before |-> call[t].pre,
                               rows |-> call[t].out.table \ call[t].pre]
                         ELSE created
          /\ call' = [call EXCEPT ![t].exc = exc, ![t].failure = exc]
          /\ pc' = [pc EXCEPT ![t] = AfterCommit(exc)]
  /\ UNCHANGED <<engine, sessionmaker, creations, nextId, nCalls>>

\* `if commit: await session.commit()`
Commit(t) ==
  /\ pc[t] = "commit"
  /\ \E fail \in BOOLEAN :
       LET s == call[t].session
           exc == IF fail THEN "OperationalError" ELSE NoExc
           logged == Logged(s, "commit", call[t].id, ~fail)
       IN /\ sessions' = IF fail THEN logged ELSE [logged EXCEPT ![s].tx = NoTx]
          /\ committed' = IF ~fail /\ sessions[s].tx.active
                          THEN sessions[s].tx.table ELSE committed
          /\ created' = IF ~fail /\ call[t].op = "create"
                         THEN [n |-> Len(call[t].args.values),
                               values |-> call[t].args.values,
                               before |-> call[t].pre,
                               rows |-> call[t].out.table \ call[t].pre]
                         ELSE created
          /\ call' = [call EXCEPT ![t].exc = exc, ![t].failure = exc]
          /\ pc' = [pc EXCEPT ![t] = AfterCommit(exc)]
  /\ UNCHANGED <<engine, sessionmaker, creations, nextId, nCalls>>

\* except SQLAlchemyError: `await session.rollback()`, its own
\* SQLAlchemyError logged and dropped, then `raise`.
Rollback(t) ==
  /\ pc[t] = "rollback"
  /\ \E fail \in BOOLEAN :
       LET s == call[t].session
           logged == Logged(s, "rollback", call[t].id, ~fail)
       IN /\ sessions' = IF fail THEN logged ELSE [logged EXCEPT ![s].tx = NoTx]
          /\ call' = [call EXCEPT ![t].exc =
                        AfterRollbackExc(@, IF fail THEN "OperationalError" ELSE NoExc)]
  /\ pc' = [pc EXCEPT ![t] = "close"]
  /\ UNCHANGED <<engine, sessionmaker, creations, committed, nextId, nCalls, created>>

\* finally: `await session.close()`; the context manager's own close on
\* exit finds the session closed.  Uncommitted changes are discarded.
Close(t) ==
  /\ pc[t] = "close"
  /\ LET s == call[t].session
     IN sessions' = [Logged(s, "close", call[t].id, TRUE) EXCEPT
                       ![s].open = FALSE, ![s].tx = NoTx]
  /\ pc' = [pc EXCEPT ![t] = "done"]
  /\ UNCHANGED <<engine, sessionmaker, creations, committed, nextId, nCalls, call, created>>

\* Control is back with the caller, which has seen call[t].exc / call[t].out.
\* The log of the invocation's session is complete and is dropped.
Return(t) ==
  /\ pc[t] = "done"
  /\ pc' = [pc EXCEPT ![t] = "idle"]
  /\ call' = [call EXCEPT ![t] = NoCall]
  /\ sessions' = IF call[t].session = 0 THEN sessions
                 ELSE [sessions EXCEPT ![call[t].session].log = << >>]
  /\ created' = IF call[t].op = "create" /\ call[t].exc = NoExc THEN created
                ELSE NoCreated
  /\ UNCHANGED <<engine, sessionmaker, creations, committed, nextId, nCalls>>

\* The inputs the callers draw from.  Sequential callers (one invocation in
\* flight at a time, MaxCalls in all) pass every payload; concurrent callers
\* (MaxTasks invocations, all in flight at once if they choose) pass a few,
\* under an isolation level, so that every await of the wrapper is taken.
Inputs ==
  [inflight |-> 1, calls |-> MaxCalls, inits |-> 1, ops |-> Ops,
   levels |-> {"None", "SERIALIZABLE"},
   stmts |-> RawStatements, ids |-> IdArgs,
   filters |-> FilterArgs, stricts |-> BOOLEAN, values |-> UpdateValues,
   payloads |-> CreateValues, order_bys |-> {NoOrder}, limits |-> {NoInt},
   offsets |-> {NoInt}, group_bys |-> {<< >>}, havings |-> {NotGiven},
   aggregations |-> {<< >>, Aggregate("email", "invalid_func")}]

ConcurrentInputs ==
  [inflight |-> MaxTasks, calls |-> MaxTasks, inits |-> 1,
   ops |-> {"get_many", "create", "delete"}, levels |-> {"SERIALIZABLE"},
   stmts |-> {}, ids |-> {1}, filters |-> {NotGiven}, stricts |-> {TRUE},
   values |-> {Set1("name", Scalar("Bob"))},
   payloads |-> {<<NewRow("Alice", "a1")>>}, order_bys |-> {NoOrder},
   limits |-> {NoInt}, offsets |-> {NoInt}, group_bys |-> {<< >>},
   havings |-> {NotGiven}, aggregations |-> {<< >>}]

\* Callers that only query, with grouping, aggregates and HAVING, a store
\* that already holds rows.
QueryInputs ==
  [inflight |-> 1, calls |-> 1, inits |-> 1, ops |-> {"get_many"},
   levels |-> {"None"}, stmts |-> {}, ids |-> {0},
   filters |-> {NotGiven, Given(<< >>), Given(Set1("name", Scalar("Alice"))),
                Given(Set1("email", Scalar("a4"))),
                Given(Set1("invalid_field", Scalar("invalid")))},
   stricts |-> {TRUE}, values |-> {<< >>}, payloads |-> {<< >>},
   order_bys |-> {NoOrder}, limits |-> {NoInt}, offsets |-> {NoInt},
   group_bys |-> GroupByArgs, havings |-> HavingArgs,
   aggregations |-> AggregationArgs]

\* The rows such a store may hold: ids 1..MaxRows, each with its own email.
QueryRows ==
  {[id |-> i, name |-> n, email |-> Collation[Cardinality(Names) + i]] :
     i \in 1..MaxRows, n \in Names}

QueryTables == {table \in SUBSET QueryRows : Unique(table)}

Next ==
  \/ init_db(Inputs)
  \/ \E t \in Tasks :
       \/ Call(t, Inputs)
       \/ SetIsolation(t)
       \/ Method_execute_sql(t, Inputs)
       \/ Method_get_one(t, Inputs)
       \/ Method_get_many(t, Inputs)
       \/ Method_create(t, Inputs)
       \/ Method_update(t, Inputs)
       \/ Method_delete(t, Inputs)
       \/ Commit(t)
       \/ Rollback(t)
       \/ Close(t)
       \/ Return(t)

Spec == Init /\ [][Next]_vars

NextConcurrent ==
  \/ init_db(ConcurrentInputs)
  \/ \E t \in Tasks :
       \/ Call(t, ConcurrentInputs)
       \/ SetIsolation(t)
       \/ Method_get_many(t, ConcurrentInputs)
       \/ Method_create(t, ConcurrentInputs)
       \/ Method_delete(t, ConcurrentInputs)
       \/ Commit(t)
       \/ Rollback(t)
       \/ Close(t)
       \/ Return(t)

SpecConcurrent == Init /\ [][NextConcurrent]_vars

\* The program after init_db() and some committed creates.
InitQuery ==
  /\ engine = TRUE
  /\ sessionmaker = TRUE
  /\ creations = [engines |-> 1, factories |-> 1, inits |-> 1, gets |-> 0]
  /\ committed \in QueryTables
  /\ nextId = MaxRows + 1
  /\ nCalls = 0
  /\ sessions = << >>
  /\ pc = [t \in Tasks |-> "idle"]
  /\ call = [t \in Tasks |-> NoCall]
  /\ created = NoCreated

NextQuery ==
  \E t \in Tasks :
    \/ Call(t, QueryInputs)
    \/ Method_get_many(t, QueryInputs)
    \/ Rollback(t)
    \/ Close(t)
    \/ Return(t)

SpecQuery == InitQuery /\ [][NextQuery]_vars

\* Callers that query with order_by, limit and offset, grouped or not, a store
\* that already holds rows.
OrderInputs ==
  [inflight |-> 1, calls |-> 1, inits |-> 1, ops |-> {"get_one", "get_many"},
   levels |-> {"None"}, stmts |-> {}, ids |-> {0},
   filters |-> {NotGiven, Given(Set1("name", Scalar("Alice")))},
   stricts |-> BOOLEAN, values |-> {<< >>}, payloads |-> {<< >>},
   order_bys |-> OrderByArgs, limits |-> LimitArgs, offsets |-> OffsetArgs,
   group_bys |-> {<< >>, <<"name">>}, havings |-> {NotGiven},
   aggregations |-> {<< >>}]

NextOrder ==
  \E t \in Tasks :
    \/ Call(t, OrderInputs)
    \/ Method_get_one(t, OrderInputs)
    \/ Method_get_many(t, OrderInputs)
    \/ Rollback(t)
    \/ Close(t)
    \/ Return(t)

SpecOrder == InitQuery /\ [][NextOrder]_vars

\* Callers that create rows through the wrapper, under every isolation level,
\* and open sessions with get_session, before and after init_db, in any order.
StartupInputs ==
  [inflight |-> 1, calls |-> MaxCalls, inits |-> MaxTasks, ops |-> {"create"},
   levels |-> IsolationLevels, stmts |-> {}, ids |-> {0}, filters |-> {NotGiven},
   stricts |-> {TRUE}, values |-> {<< >>},
   payloads |-> {<<NewRow("Alice", "a1")>>, <<NewRow("Bob", "a1")>>},
   order_bys |-> {NoOrder}, limits |-> {NoInt}, offsets |-> {NoInt},
   group_bys |-> {<< >>}, havings |-> {NotGiven}, aggregations |-> {<< >>}]

NextStartup ==
  \/ init_db(StartupInputs)
  \/ get_session(StartupInputs)
  \/ \E t \in Tasks :
       \/ Call(t, StartupInputs)
       \/ SetIsolation(t)
       \/ Method_create(t, StartupInputs)
       \/ Commit(t)
       \/ Rollback(t)
       \/ Close(t)
       \/ Return(t)

SpecStartup == Init /\ [][NextStartup]_vars

\* ------------------------------------------------------------------ claims
InWrapper(t) == pc[t] # "idle" /\ call[t].session # 0
LogOf(t) == sessions[call[t].session].log
Entries(log, what) == {k \in 1..Len(log) : log[k].op = what}
Statements == {"select", "insert", "update", "delete"}

\* C1: when control returns to the caller, the session the invocation
\* acquired is closed, whatever the exit path; a session is open only while
\* the invocation that acquired it is still inside the wrapper.
C1_SessionClosedOnEveryExit ==
  /\ \A t \in Tasks :
       (pc[t] = "done" /\ call[t].session # 0) =>
         /\ ~sessions[call[t].session].open
         /\ LogOf(t)[Len(LogOf(t))].op = "close"
  /\ \A s \in 1..Len(sessions) :
       sessions[s].open =>
         \E t \in Tasks : /\ pc[t] \in {"isolation", "method", "commit", "rollback", "close"}
                          /\ call[t].session = s

\* An invocation under an isolation level has returned after its commit and
\* then its rollback failed, with its session closed, and it is not the first
\* session the factory made.
C1_Witness ==
  \E t \in Tasks :
    /\ pc[t] = "done" /\ call[t].session > 1
    /\ Entries(LogOf(t), "set_isolation") # {}
    /\ \E k \in Entries(LogOf(t), "commit") : ~LogOf(t)[k].ok
    /\ \E k \in Entries(LogOf(t), "rollback") : ~LogOf(t)[k].ok
    /\ ~sessions[call[t].session].open

\* C2: every invocation inside the wrapper holds a session of its own, made
\* for it alone, and everything done on a session (execute, commit, rollback,
\* close) is done by the invocation that acquired it.
C2_OneSessionPerInvocation ==
  /\ \A t \in Tasks :
       InWrapper(t) => sessions[call[t].session].owner = call[t].id
  /\ \A t, u \in Tasks :
       (t # u /\ InWrapper(t) /\ InWrapper(u)) => call[t].session # call[u].session
  /\ \A s1, s2 \in 1..Len(sessions) :
       s1 # s2 => sessions[s1].owner # sessions[s2].owner
  /\ \A s \in 1..Len(sessions) :
       \A k \in 1..Len(sessions[s].log) : sessions[s].log[k].by = sessions[s].owner

\* Two invocations are in flight at once, each having executed on its session.
C2_Witness ==
  \E t, u \in Tasks :
    /\ t # u
    /\ pc[t] \in {"commit", "rollback"} /\ pc[u] \in {"commit", "rollback"}
    /\ LogOf(t) # << >> /\ LogOf(u) # << >>

\* C3: a commit is issued at most once, only for an operation decorated with
\* commit=True, and only after the method has executed its statement and
\* returned without raising; get_one and get_many never commit.
C3_CommitOnlyAfterSuccess ==
  \A t \in Tasks :
    InWrapper(t) =>
      LET log == LogOf(t)
          commits == Entries(log, "commit")
      IN /\ Cardinality(commits) <= 1
         /\ call[t].op \in {"get_one", "get_many"} => commits = {}
         /\ (call[t].invoked /\ call[t].out.exc # NoExc) => commits = {}
         /\ \A k \in commits :
              /\ call[t].commit
              /\ call[t].invoked /\ call[t].out.exc = NoExc
              /\ \E j \in 1..(k - 1) : log[j].op = call[t].out.stmt.kind /\ log[j].ok

\* A create has returned and its commit has been issued and has succeeded.
C3_Witness ==
  \E t \in Tasks :
    /\ pc[t] = "done" /\ call[t].op = "create" /\ call[t].exc = NoExc
    /\ \E k \in Entries(LogOf(t), "commit") : LogOf(t)[k].ok

\* The isolation directive, the method's statement or the commit failed in
\* the store, or the method raised a store-layer exception of its own.
StoreFailed(t) ==
  \/ \E k \in 1..Len(LogOf(t)) : LogOf(t)[k].op # "rollback" /\ ~LogOf(t)[k].ok
  \/ (call[t].invoked /\ IsSQLAlchemyError(call[t].out.exc))

\* C4: after a store-layer failure of the isolation directive, the method or
\* the commit, the wrapper has attempted exactly one rollback, after the
\* failure and before the close, and the caller observes the original failure,
\* whether or not the rollback failed too.
C4_RollbackThenOriginalFailure ==
  \A t \in Tasks :
    (pc[t] = "done" /\ call[t].session # 0 /\ StoreFailed(t)) =>
      LET log == LogOf(t)
      IN /\ Cardinality(Entries(log, "rollback")) = 1
         /\ log[Len(log) - 1].op = "rollback"
         /\ IsSQLAlchemyError(call[t].failure)
         /\ call[t].exc = call[t].failure
         /\ IsSQLAlchemyError(call[t].out.exc) => call[t].exc = call[t].out.exc

\* A create hit the unique constraint, the rollback failed as well, and the
\* caller got IntegrityError.
C4_Witness ==
  \E t \in Tasks :
    /\ pc[t] = "done" /\ call[t].op = "create"
    /\ call[t].out.exc = "IntegrityError" /\ call[t].exc = "IntegrityError"
    /\ \E k \in Entries(LogOf(t), "rollback") : ~LogOf(t)[k].ok

Committed(t) == \E k \in Entries(LogOf(t), "commit") : LogOf(t)[k].ok
RolledBack(t) == Entries(LogOf(t), "rollback") # {}
Released(t) == ~sessions[call[t].session].open

\* C5 as stated: every operation that has returned passed through exactly one
\* of Committed and RolledBack before Released.
C5_Original ==
  \A t \in Tasks :
    (pc[t] = "done" /\ call[t].session # 0) =>
      /\ Released(t)
      /\ Committed(t) # RolledBack(t)

\* C5 amended: every operation ends Released and never passes through both
\* Committed and RolledBack (a rollback attempt); it passes through neither
\* exactly when it is decorated commit=False and the method returns, or when
\* the method raises an exception that is not a store-layer one.
C5_AtMostOneOfCommittedRolledBack ==
  \A t \in Tasks :
    (pc[t] = "done" /\ call[t].session # 0) =>
      /\ Released(t)
      /\ ~(Committed(t) /\ RolledBack(t))
      /\ (~Committed(t) /\ ~RolledBack(t)) <=>
           /\ call[t].invoked
           /\ \/ (call[t].out.exc = NoExc /\ ~call[t].commit)
              \/ call[t].out.exc \in DBConnectExceptions

\* A get_many has returned rows to the caller with neither commit nor
\* rollback, its session released.
C5_Witness ==
  \E t \in Tasks :
    /\ pc[t] = "done" /\ call[t].op = "get_many" /\ call[t].exc = NoExc
    /\ call[t].out.rows # {}
    /\ call[t].session # 0 /\ ~Committed(t) /\ ~RolledBack(t) /\ Released(t)

\* The method of task t has run as op.
Ran(t, op) == call[t].invoked /\ call[t].op = op

\* The method's UPDATE or DELETE was executed by the store and matched no row.
ZeroRows(t) ==
  /\ call[t].invoked /\ call[t].op \in {"update", "delete"}
  /\ call[t].out.executed /\ ~call[t].out.failed /\ call[t].out.rowcount = 0

\* C6 as stated: a zero-row update or delete is committed, and the caller
\* gets NotFoundError after that commit.
C6_Original ==
  \A t \in Tasks :
    (pc[t] = "done" /\ ZeroRows(t)) =>
      (call[t].exc = "NotFoundError" /\ Committed(t))

\* C6 amended: a zero-row update or delete raises NotFoundError inside the
\* method, so the wrapper issues neither commit nor rollback: it closes the
\* session and the caller gets NotFoundError.
C6_ZeroRowsNotCommitted ==
  \A t \in Tasks :
    (InWrapper(t) /\ ZeroRows(t)) =>
      /\ call[t].out.exc = "NotFoundError"
      /\ call[t].exc = "NotFoundError"
      /\ pc[t] \in {"close", "done"}
      /\ Entries(LogOf(t), "commit") = {}
      /\ Entries(LogOf(t), "rollback") = {}
      /\ committed = call[t].pre

\* An update by a filter that matches no row has returned NotFoundError to
\* the caller after executing and closing, nothing else.
C6_Witness ==
  \E t \in Tasks :
    /\ pc[t] = "done" /\ ZeroRows(t) /\ call[t].op = "update"
    /\ call[t].args.id = 0 /\ committed # {}
    /\ call[t].exc = "NotFoundError"
    /\ Len(LogOf(t)) = 2 /\ LogOf(t)[1].op = "update" /\ LogOf(t)[2].op = "close"

\* C7 as stated: delete(filters=F), no id, F with no set field, raises
\* EmptyFilterError in every store state and deletes no row.
C7_DeleteEmptyFilterRejected ==
  \A t \in Tasks :
    (Ran(t, "delete") /\ call[t].args.id = 0
       /\ call[t].args.filters = Given(<< >>)) =>
      /\ call[t].out.exc = "EmptyFilterError"
      /\ ~call[t].out.executed
      /\ call[t].out.table = call[t].pre

\* Every set field of the payload is a column holding an empty list.
BuildsToNoPredicate(payload) ==
  \A k \in 1..Len(payload) :
    /\ InCatalog(payload[k].field)
    /\ payload[k].value.isList /\ Len(payload[k].value.items) = 0

\* C8 as stated: update(values, filters=F), no id, values with a set field,
\* F building to no predicate, raises EmptyFilterError, changes no row and
\* executes no UPDATE without a predicate.
C8_UpdateEmptyFilterRejected ==
  \A t \in Tasks :
    (Ran(t, "update") /\ call[t].args.values # << >> /\ call[t].args.id = 0
       /\ call[t].args.filters.given
       /\ BuildsToNoPredicate(call[t].args.filters.fields)) =>
      /\ call[t].out.exc = "EmptyFilterError"
      /\ ~(call[t].out.executed /\ call[t].out.stmt.where = << >>)
      /\ call[t].out.table = call[t].pre

\* C9 as stated: get_one(filters=F) and get_many(filters=F), F with no set
\* field, raise EmptyFilterError and run no unfiltered query.
C9_GetEmptyFilterRejected ==
  \A t \in Tasks :
    (call[t].invoked /\ call[t].op \in {"get_one", "get_many"}
       /\ call[t].args.id = 0 /\ call[t].args.filters = Given(<< >>)) =>
      /\ call[t].out.exc = "EmptyFilterError"
      /\ ~call[t].out.executed

\* What a filter payload asks of a row: equality on a scalar, membership on
\* a non-empty list, nothing on an empty list.
Satisfies(row, payload) ==
  \A k \in 1..Len(payload) :
    LET v == payload[k].value
    IN IF v.isList
       THEN Len(v.items) = 0 \/ \E j \in 1..Len(v.items) : row[payload[k].field] = v.items[j]
       ELSE row[payload[k].field] = v.items[1]

BuildsToPredicate(payload) ==
  /\ \A k \in 1..Len(payload) : InCatalog(payload[k].field)
  /\ \E k \in 1..Len(payload) :
       ~(payload[k].value.isList /\ Len(payload[k].value.items) = 0)

\* The call is scoped by an id, or by a filter that builds to a predicate.
Scoped(args) ==
  args.id # 0 \/ (args.filters.given /\ BuildsToPredicate(args.filters.fields))

\* The rows the scope selects: the id has priority over the filter.
Target(args, table) ==
  IF args.id # 0 THEN {r \in table : r.id = args.id}
  ELSE {r \in table : Satisfies(r, args.filters.fields)}

NewValue(values, field, old) ==
  IF \E k \in 1..Len(values) : values[k].field = field
  THEN values[CHOOSE k \in 1..Len(values) : values[k].field = field].value.items[1]
  ELSE old

\* The table after the scoped statement: the target rows removed, or carrying
\* the new values, every other row as it was.
Expected(op, args, table) ==
  LET hit == Target(args, table)
  IN IF op = "delete" THEN table \ hit
     ELSE (table \ hit) \cup
            {[id |-> r.id, name |-> NewValue(args.values, "name", r.name),
              email |-> NewValue(args.values, "email", r.email)] : r \in hit}

C11_EmptyValuesRejected ==
  \A t \in Tasks :
    (Ran(t, "update") /\ call[t].args.values = << >>) =>
      /\ call[t].out.exc = "EmptyValueError"
      /\ ~call[t].out.executed
      /\ call[t].out.table = call[t].pre
      /\ \A k \in 1..Len(LogOf(t)) : LogOf(t)[k].op \notin Statements
      /\ call[t].exc = "EmptyValueError"
      /\ committed = call[t].pre

\* An update with no set value, by the id of a row the store holds and with a
\* filter as well, has returned EmptyValueError to the caller.
C11_Witness ==
  \E t \in Tasks :
    /\ pc[t] = "done" /\ Ran(t, "update") /\ call[t].args.values = << >>
    /\ call[t].args.id # 0 /\ call[t].args.filters.given
    /\ \E r \in call[t].pre : r.id = call[t].args.id
    /\ call[t].exc = "EmptyValueError"

\* C12 as stated: create(values) and update(values, id=...) whose values set
\* a field that is no column raise InvalidFieldError, and no statement is
\* handed to the session.
C12_InvalidValueFieldRejected ==
  \A t \in Tasks :
    ( \/ (Ran(t, "create")
            /\ \E k \in 1..Len(call[t].args.values) :
                 Unconsumed(call[t].args.values[k]))
      \/ (Ran(t, "update") /\ call[t].args.id # 0
            /\ Unconsumed(call[t].args.values)) ) =>
      /\ call[t].out.exc = "InvalidFieldError"
      /\ ~call[t].out.executed

\* C13: get_one, get_many, and delete and update called without id (update
\* with a set value, else C11 applies; get_many without aggregations, which
\* are looked at before the filter): when a set field of the filter is no
\* column, wherever it stands among the set fields, the method raises
\* InvalidFieldError, builds no statement from the filter's other fields,
\* hands nothing to the session, and the caller gets InvalidFieldError with
\* the store as it was.
C13_InvalidFilterFieldRejected ==
  \A t \in Tasks :
    (call[t].invoked /\ call[t].args.filters.given
       /\ Unconsumed(call[t].args.filters.fields)
       /\ \/ call[t].op = "get_one"
          \/ (call[t].op = "get_many" /\ call[t].args.aggregations = << >>)
          \/ (call[t].op = "delete" /\ call[t].args.id = 0)
          \/ (call[t].op = "update" /\ call[t].args.id = 0
                /\ call[t].args.values # << >>)) =>
      /\ call[t].out.exc = "InvalidFieldError"
      /\ ~call[t].out.executed
      /\ call[t].out.stmt = NoStmt
      /\ call[t].out.table = call[t].pre
      /\ \A k \in 1..Len(LogOf(t)) : LogOf(t)[k].op \notin Statements
      /\ call[t].exc = "InvalidFieldError"
      /\ committed = call[t].pre

\* A delete without id, by a filter whose first set field matches a stored
\* row and whose second is no column, has returned InvalidFieldError.
C13_Witness ==
  \E t \in Tasks :
    /\ pc[t] = "done" /\ Ran(t, "delete") /\ call[t].args.id = 0
    /\ call[t].args.filters.given
    /\ Len(call[t].args.filters.fields) = 2
    /\ call[t].args.filters.fields[1].field = "name"
    /\ ~InCatalog(call[t].args.filters.fields[2].field)
    /\ \E r \in call[t].pre : r.name = call[t].args.filters.fields[1].value.items[1]
    /\ call[t].exc = "InvalidFieldError"

\* The get_many of task t has run with a filter of column fields that builds
\* to a predicate, and no row it read satisfies that filter.
MatchesNothing(t) ==
  /\ Ran(t, "get_many") /\ call[t].args.filters.given
  /\ BuildsToPredicate(call[t].args.filters.fields)
  /\ \A r \in call[t].pre : ~Satisfies(r, call[t].args.filters.fields)

\* C14: a get_many whose filter matches no row never raises NotFoundError,
\* whatever the store holds: called with a filter alone (or with a having
\* filter, which is passed over without group_by) it returns the empty
\* sequence unless the store fails; called with group_by as well it returns
\* the empty sequence whenever it returns.  (Aggregates without group_by
\* return one record of aggregates over no rows.)
C14_GetManyNoMatchIsEmpty ==
  \A t \in Tasks :
    MatchesNothing(t) =>
      /\ call[t].out.exc # "NotFoundError"
      /\ call[t].exc # "NotFoundError"
      /\ (~call[t].out.failed /\ call[t].args.group_by = << >>
            /\ call[t].args.aggregations = << >>) =>
           /\ call[t].out.exc = NoExc /\ call[t].exc = NoExc
           /\ call[t].out.kind = "rows" /\ call[t].out.rows = {}
      /\ (call[t].out.exc = NoExc /\ call[t].args.group_by # << >>) =>
           (call[t].out.kind = "rows" /\ call[t].out.rows = {})

\* A get_many by a name no stored row carries, on a store that holds rows,
\* has returned the empty sequence to the caller.
C14_Witness ==
  \E t \in Tasks :
    /\ pc[t] = "done" /\ MatchesNothing(t) /\ call[t].pre # {}
    /\ call[t].args.group_by = << >> /\ call[t].args.aggregations = << >>
    /\ call[t].exc = NoExc /\ call[t].out.kind = "rows" /\ call[t].out.rows = {}

\* The value a payload sets for a field.
ValueOf(payload, field) == NewValue(payload, field, "")

\* A batch of payloads create can store on top of `table`: at least one
\* payload, every payload setting name and email and nothing that is no
\* column, no email twice in the batch or already in the table.
ValidBatch(payloads, table) ==
  /\ Len(payloads) >= 1
  /\ \A k \in 1..Len(payloads) :
       /\ ~Unconsumed(payloads[k])
       /\ {payloads[k][j].field : j \in 1..Len(payloads[k])} = {"name", "email"}
       /\ \A r \in table : r.email # ValueOf(payloads[k], "email")
       /\ \A j \in 1..Len(payloads) :
            j # k => ValueOf(payloads[j], "email") # ValueOf(payloads[k], "email")

\* C15: a create of N valid payloads hands one INSERT to the session and no
\* other statement and, unless the store fails, returns N, having added N rows
\* that carry the payloads' values to the rows that were there; once it has
\* returned, the store holds exactly those rows, and the unfiltered get_many()
\* that follows returns exactly the rows from before the create plus the N
\* new ones.
C15_CreateAddsNRows ==
  /\ \A t \in Tasks :
       (Ran(t, "create") /\ ValidBatch(call[t].args.values, call[t].pre)) =>
         LET out == call[t].out
             N == Len(call[t].args.values)
             new == out.table \ call[t].pre
         IN /\ out.executed /\ out.stmt.kind = "insert"
            /\ Cardinality({k \in 1..Len(LogOf(t)) : LogOf(t)[k].op \in Statements}) = 1
            /\ out.exc \in {NoExc, "OperationalError"}
            /\ out.exc = NoExc =>
                 /\ out.kind = "count" /\ out.count = N
                 /\ call[t].pre \subseteq out.table
                 /\ Cardinality(new) = N
                 /\ \A k \in 1..N :
                      \E r \in new :
                        /\ r.name = ValueOf(call[t].args.values[k], "name")
                        /\ r.email = ValueOf(call[t].args.values[k], "email")
            /\ (pc[t] = "done" /\ call[t].exc = NoExc) => committed = out.table
  /\ \A t \in Tasks :
       (Ran(t, "get_many") /\ call[t].args = NoArgs /\ created.n > 0
          /\ call[t].out.exc = NoExc) =>
         /\ call[t].out.kind = "rows"
         /\ call[t].out.rows = created.before \cup created.rows
         /\ Cardinality(created.rows) = created.n
         /\ Cardinality(call[t].out.rows) = Cardinality(created.before) + created.n

\* After a create of one payload on a store that held a row, the get_many()
\* that follows has returned both rows.
C15_Witness ==
  \E t \in Tasks :
    /\ pc[t] = "done" /\ Ran(t, "get_many") /\ call[t].args = NoArgs
    /\ created.n = 1 /\ created.before # {}
    /\ call[t].exc = NoExc /\ Cardinality(call[t].out.rows) = 2

\* C16: get_one(id=X) with nothing else given: right after the committed
\* create of the single row X it returns that row, a record of all the
\* columns with X as id and the created values; for an X no row has it
\* returns None and raises nothing (unless the store fails).
C16_GetOneByIdReturnsCreated ==
  \A t \in Tasks :
    (Ran(t, "get_one") /\ call[t].args.id # 0 /\ ~call[t].args.filters.given
       /\ ~call[t].out.failed) =>
      LET out == call[t].out
          X == call[t].args.id
      IN /\ (created.n = 1 /\ \E r \in created.rows : r.id = X) =>
              /\ out.exc = NoExc /\ out.kind = "row"
              /\ out.rows = created.rows
              /\ \A r \in out.rows :
                   /\ DOMAIN r = {Catalog[k] : k \in 1..Len(Catalog)}
                   /\ r.id = X
                   /\ r.name = ValueOf(created.values[1], "name")
                   /\ r.email = ValueOf(created.values[1], "email")
              /\ pc[t] = "done" => call[t].exc = NoExc
         /\ (\A r \in call[t].pre : r.id # X) =>
              /\ out.exc = NoExc /\ out.kind = "none" /\ out.rows = {}
              /\ pc[t] = "done" => call[t].exc = NoExc

\* After the create of a second row, get_one by that row's id has returned it.
C16_Witness ==
  \E t \in Tasks :
    /\ pc[t] = "done" /\ Ran(t, "get_one") /\ ~call[t].args.filters.given
    /\ created.n = 1 /\ created.before # {}
    /\ \E r \in created.rows : r.id = call[t].args.id
    /\ call[t].exc = NoExc /\ call[t].out.kind = "row"

\* The rows get_one is asked for: the id, when given, and the filter's
\* predicates, all of them.
Asked(args, table) ==
  {r \in table : /\ args.id # 0 => r.id = args.id
                 /\ Satisfies(r, args.filters.fields)}

\* C17: a strict get_one with a filter of column fields (with an id or at
\* least one predicate to match by) raises MultipleResultsFound when more
\* than one row matches id and filter together, returns the row when exactly
\* one does, and returns None when none does (unless the store fails).
C17_StrictGetOne ==
  \A t \in Tasks :
    (Ran(t, "get_one") /\ call[t].args.strict /\ call[t].args.filters.given
       /\ ~Unconsumed(call[t].args.filters.fields)
       /\ (call[t].args.id # 0 \/ BuildsToPredicate(call[t].args.filters.fields))
       /\ ~call[t].out.failed) =>
      LET out == call[t].out
          hit == Asked(call[t].args, call[t].pre)
      IN /\ out.executed
         /\ Cardinality(hit) > 1 =>
              /\ out.exc = "MultipleResultsFound"
              /\ pc[t] = "done" => call[t].exc = "MultipleResultsFound"
         /\ Cardinality(hit) = 1 =>
              (out.exc = NoExc /\ out.kind = "row" /\ out.rows = hit)
         /\ Cardinality(hit) = 0 =>
              (out.exc = NoExc /\ out.kind = "none" /\ out.rows = {})
         /\ (pc[t] = "done" /\ Cardinality(hit) <= 1) => call[t].exc = NoExc

\* A strict get_one by a name two stored rows share has raised
\* MultipleResultsFound to the caller.
C17_Witness ==
  \E t \in Tasks :
    /\ pc[t] = "done" /\ Ran(t, "get_one") /\ call[t].args.strict
    /\ call[t].args.id = 0 /\ call[t].args.filters.given
    /\ BuildsToPredicate(call[t].args.filters.fields)
    /\ Cardinality(Asked(call[t].args, call[t].pre)) = 2
    /\ call[t].exc = "MultipleResultsFound"

\* C18 as stated: get_many with a having filter and no group_by (nothing
\* else given) raises a ValueError and hands no query to the session.
C18_HavingWithoutGroupByRejected ==
  \A t \in Tasks :
    (Ran(t, "get_many") /\ call[t].args.having_filters.given
       /\ call[t].args = [NoArgs EXCEPT !.having_filters = call[t].args.having_filters]) =>
      /\ call[t].out.exc = "ValueError"
      /\ ~call[t].out.executed

\* Every field of the list is a column.
AllColumnsOf(fields) == \A k \in 1..Len(fields) : InCatalog(fields[k])

\* C19 as stated: get_many with an aggregations mapping that names a function
\* outside count, sum, avg, min, max, whatever field that entry is keyed by,
\* with or without a (valid) group_by, raises UnknowAggregationFunc and hands
\* no query to the session.
C19_UnknownAggregationRejected ==
  \A t \in Tasks :
    (Ran(t, "get_many") /\ AllColumnsOf(call[t].args.group_by)
       /\ \E k \in 1..Len(call[t].args.aggregations) :
            Lower(call[t].args.aggregations[k].func) \notin AggregationFunctions) =>
      /\ call[t].out.exc = "UnknowAggregationFunc"
      /\ ~call[t].out.executed

\* The rows the call's filter lets through (no filter: every row).
Filtered(args, table) ==
  IF args.filters.given THEN {r \in table : Satisfies(r, args.filters.fields)}
  ELSE table

\* get_many(group_by=G, aggregations=A), G not empty, G and the keys of A
\* columns, the functions of A known, no having filter, the filter absent or
\* building to a predicate.
GroupedCall(t) ==
  /\ Ran(t, "get_many")
  /\ call[t].args.group_by # << >> /\ AllColumnsOf(call[t].args.group_by)
  /\ \A k \in 1..Len(call[t].args.aggregations) :
       /\ InCatalog(call[t].args.aggregations[k].field)
       /\ Lower(call[t].args.aggregations[k].func) \in AggregationFunctions
  /\ ~call[t].args.having_filters.given
  /\ call[t].args.filters.given => BuildsToPredicate(call[t].args.filters.fields)

\* C20: such a call returns, unless the store fails or rejects the query, one
\* record per distinct combination of G values among the rows the filter
\* lets through, and only those; the keys of every record are the G fields and
\* one "<field>_<function>" per entry of A, the function as the caller wrote
\* it; and a count aggregate is the number of rows of the record's group.
C20_GroupedRecords ==
  \A t \in Tasks :
    (GroupedCall(t) /\ ~call[t].out.failed) =>
      LET out == call[t].out
          A == call[t].args.aggregations
          G == {call[t].args.group_by[k] : k \in 1..Len(call[t].args.group_by)}
          rows == Filtered(call[t].args, call[t].pre)
          Key(r) == [f \in G |-> r[f]]
      IN /\ out.exc = NoExc /\ out.kind = "rows"
         /\ pc[t] = "done" => call[t].exc = NoExc
         /\ {Key(rec) : rec \in out.rows} = {Key(r) : r \in rows}
         /\ Cardinality(out.rows) = Cardinality({Key(r) : r \in rows})
         /\ \A rec \in out.rows :
              /\ DOMAIN rec = G \cup {A[k].field \o "_" \o A[k].func : k \in 1..Len(A)}
              /\ \A k \in 1..Len(A) :
                   Lower(A[k].func) = "count" =>
                     rec[A[k].field \o "_" \o A[k].func]
                       = Cardinality({r \in rows : Key(r) = Key(rec)})

\* On three rows named Alice, Alice and Bob, get_many(group_by="name",
\* aggregations={"id": "count"}) has returned {Alice, 2} and {Bob, 1}.
C20_Witness ==
  \E t \in Tasks :
    /\ pc[t] = "done" /\ GroupedCall(t) /\ ~call[t].args.filters.given
    /\ call[t].args.group_by = <<"name">>
    /\ call[t].args.aggregations = Aggregate("id", "count")
    /\ Cardinality(call[t].pre) = 3
    /\ Cardinality({r \in call[t].pre : r.name = "Alice"}) = 2
    /\ call[t].exc = NoExc
    /\ call[t].out.rows = {[name |-> "Alice", id_count |-> 2],
                           [name |-> "Bob", id_count |-> 1]}

\* C21: an update (with valid values) or delete given both id and filters
\* hands the session a statement whose only predicate is `id == X`; the
\* filter is not looked at, not even for fields that are no columns; at most
\* the row X is changed or removed and every other row, the ones matching the
\* filter included, is as it was, also in the store once the call returned.
C21_IdTakesPriority ==
  \A t \in Tasks :
    (call[t].invoked /\ call[t].op \in {"update", "delete"}
       /\ call[t].args.id # 0 /\ call[t].args.filters.given
       /\ (call[t].op = "update" =>
             (call[t].args.values # << >> /\ ~Unconsumed(call[t].args.values)))) =>
      LET out == call[t].out
          X == call[t].args.id
      IN /\ out.executed
         /\ out.stmt.where = <<Eq("id", X)>>
         /\ out.exc \notin {"InvalidFieldError", "EmptyFilterError"}
         /\ \A r \in call[t].pre : r.id # X => r \in out.table
         /\ \A r \in out.table : r.id # X => r \in call[t].pre
         /\ Cardinality(call[t].pre \ out.table) <= 1
         /\ out.exc = NoExc => (out.count = 1 /\ \E r \in call[t].pre : r.id = X)
         /\ pc[t] = "done" =>
              \A r \in call[t].pre : r.id # X => r \in committed

\* A delete by the id of one row and a filter on the name two rows share has
\* returned 1, and the other row is still in the store.
C21_Witness ==
  \E t \in Tasks :
    /\ pc[t] = "done" /\ Ran(t, "delete") /\ call[t].args.id # 0
    /\ call[t].args.filters.given
    /\ BuildsToPredicate(call[t].args.filters.fields)
    /\ Cardinality({r \in call[t].pre : Satisfies(r, call[t].args.filters.fields)}) = 2
    /\ call[t].exc = NoExc /\ call[t].out.count = 1
    /\ Cardinality(committed) = 1

\* A set field that contributes a predicate: its value is not an empty list.
Contributes(entry) == ~(entry.value.isList /\ Len(entry.value.items) = 0)

\* `conditions` is one predicate per contributing set field of the payload,
\* in field order: IN for a list, equality for anything else.
OnePredicatePerField(conditions, payload) ==
  LET kept == SelectSeq(payload, Contributes)
  IN /\ Len(conditions) = Len(kept)
     /\ \A j \in 1..Len(kept) :
          /\ conditions[j].field = kept[j].field
          /\ conditions[j].op = (IF kept[j].value.isList THEN "in" ELSE "eq")
          /\ conditions[j].items = kept[j].value.items

\* C22: for a filter whose set fields are all columns, _build_conditions
\* raises nothing and returns exactly one predicate per set field in field
\* order, IN for a non-empty list and equality otherwise, nothing for an empty
\* list, and the empty list of predicates for a filter with no set field; that
\* list is what delete and update (without id) and get_many put in the WHERE
\* of the statement they execute.
C22_BuildConditions ==
  \A t \in Tasks :
    (call[t].invoked /\ call[t].args.filters.given
       /\ ~Unconsumed(call[t].args.filters.fields)
       /\ \/ (call[t].op = "get_many" /\ call[t].args.aggregations = << >>)
          \/ (call[t].op = "delete" /\ call[t].args.id = 0)
          \/ (call[t].op = "update" /\ call[t].args.id = 0
                /\ call[t].args.values # << >>)) =>
      /\ call[t].out.executed
      /\ OnePredicatePerField(call[t].out.stmt.where, call[t].args.filters.fields)
      /\ call[t].args.filters.fields = << >> => call[t].out.stmt.where = << >>

\* A delete by a filter with an empty list for name and a value for email has
\* executed with the one predicate on email.
C22_Witness ==
  /\ \E t \in Tasks :
       /\ Ran(t, "delete") /\ call[t].args.id = 0 /\ call[t].args.filters.given
       /\ Len(call[t].args.filters.fields) = 2
       /\ call[t].out.executed
       /\ call[t].out.stmt.where = <<Eq("email", "a1")>>

Writers == {"execute_sql", "create", "update", "delete"}

\* C23: once a create, an update, a delete or a raw statement has failed with
\* a store-layer failure, at execution or at commit, the committed contents of
\* the store are those the call found, from the failure to the return; a
\* batch create that one payload makes break a unique constraint commits none
\* of its payloads.
C23_FailedCallCommitsNothing ==
  \A t \in Tasks :
    (call[t].invoked /\ call[t].op \in Writers /\ call[t].failure # NoExc) =>
      /\ committed = call[t].pre
      /\ ~Committed(t)
      /\ pc[t] = "done" =>
           /\ IsSQLAlchemyError(call[t].exc)
           /\ ~sessions[call[t].session].tx.active

\* A batch create of two payloads has returned IntegrityError and neither row
\* is in the store.
C23_Witness ==
  \E t \in Tasks :
    /\ pc[t] = "done" /\ Ran(t, "create")
    /\ Len(call[t].args.values) = 2
    /\ call[t].exc = "IntegrityError"
    /\ RolledBack(t)
    /\ committed = call[t].pre
    /\ \A r \in committed : r.email # "a2"

\* The isolation directive of t's invocation failed.
DirectiveFailed(t) ==
  \E k \in Entries(LogOf(t), "set_isolation") : ~LogOf(t)[k].ok

\* C24: under an isolation level the set-isolation directive is the first
\* thing the session executes, once, and the work is invoked only after it
\* succeeded; when it fails with a store-layer failure the work is never
\* invoked, the session executes no statement and no commit, a rollback is
\* attempted before the close and the session is closed at the return.  With
\* no isolation level, or the empty string, the session executes no directive.
C24_IsolationDirectiveFirst ==
  \A t \in Tasks :
    InWrapper(t) =>
      LET log == LogOf(t)
      IN /\ call[t].isolation_level \notin {"None", ""} =>
              /\ Entries(log, "set_isolation") \subseteq {1}
              /\ log # << >> => log[1].op = "set_isolation"
              /\ pc[t] # "isolation" => Entries(log, "set_isolation") = {1}
              /\ call[t].invoked => log[1].ok
         /\ DirectiveFailed(t) =>
              /\ ~call[t].invoked
              /\ \A k \in 1..Len(log) : log[k].op \notin Statements \cup {"commit"}
              /\ pc[t] \in {"close", "done"} => Entries(log, "rollback") = {2}
              /\ pc[t] = "done" =>
                   /\ Entries(log, "close") = {3}
                   /\ Released(t)
                   /\ IsSQLAlchemyError(call[t].exc)
         /\ call[t].isolation_level \in {"None", ""} =>
              Entries(log, "set_isolation") = {}

\* An invocation under SERIALIZABLE has returned after its directive failed:
\* the session saw the directive, a rollback and the close, and no work.
C24_Witness ==
  \E t \in Tasks :
    /\ pc[t] = "done" /\ call[t].session # 0
    /\ call[t].isolation_level = "SERIALIZABLE"
    /\ DirectiveFailed(t) /\ ~call[t].invoked
    /\ Len(LogOf(t)) = 3
    /\ LogOf(t)[2].op = "rollback" /\ LogOf(t)[3].op = "close"

\* The first `limit` elements of `list` after its first `offset` ones.
SliceOf(list, offset, limit) ==
  LET left == IF Len(list) > offset THEN Len(list) - offset ELSE 0
      n == IF limit < left THEN limit ELSE left
  IN [k \in 1..n |-> list[offset + k]]

\* A get_many that was given a limit or an offset and has returned a list.
PagedCall(t) ==
  /\ Ran(t, "get_many") /\ call[t].out.exc = NoExc
  /\ call[t].args.limit.given \/ call[t].args.offset.given

\* C25 as stated: get_many with limit=L (any integer L >= 0) and/or offset=O
\* returns the rows that the same call without limit and offset returns, less
\* the first O of them and cut to at most L; it never returns more than L
\* rows.
C25_PageIsSliceOfOrderedRows ==
  \A t \in Tasks :
    PagedCall(t) =>
      LET args == call[t].args
          O == IF args.offset.given THEN args.offset.n ELSE 0
          unpaged == [args EXCEPT !.limit = NoInt, !.offset = NoInt]
      IN /\ args.limit.given => Len(call[t].out.list) <= args.limit.n
         /\ \E scan \in Orderings(call[t].pre) :
              LET full == get_many(unpaged, call[t].pre, FALSE, scan).list
              IN call[t].out.list =
                   SliceOf(full, O, IF args.limit.given THEN args.limit.n ELSE Len(full))

\* The entries of an order_by argument: a string is one entry.
EntriesOf(order_by) ==
  IF order_by.kind = "str" THEN <<order_by.text>>
  ELSE IF order_by.kind = "list" THEN order_by.items
  ELSE << >>

Descending(entry) == entry # << >> /\ entry[1] = "-"
FieldOf(entry) == IF Descending(entry) THEN Tail(entry) ELSE entry
NamesColumn(entry) ==
  Len(FieldOf(entry)) = 1 /\ FieldOf(entry)[1] \in {"id", "name", "email"}

\* `keys` is one sort key per entry of order_by that names a column, in the
\* sequence of the entries, descending for the entries that start with '-'.
OneKeyPerColumnEntry(keys, order_by) ==
  LET kept == SelectSeq(EntriesOf(order_by), NamesColumn)
  IN /\ Len(keys) = Len(kept)
     /\ \A j \in 1..Len(kept) :
          /\ keys[j].field = FieldOf(kept[j])[1]
          /\ keys[j].desc = Descending(kept[j])

\* Row a is not after row b in the order order_by asks for.
NotAfter(a, b, order_by) ==
  LET kept == SelectSeq(EntriesOf(order_by), NamesColumn)
      differ == {j \in 1..Len(kept) : a[FieldOf(kept[j])[1]] # b[FieldOf(kept[j])[1]]}
  IN differ = {} \/
     LET j == CHOOSE d \in differ : \A o \in differ : d <= o
         f == FieldOf(kept[j])[1]
     IN IF Descending(kept[j]) THEN Leq(f, b[f], a[f]) ELSE Leq(f, a[f], b[f])

\* C26: the statement get_many or get_one hands to the session is ordered by
\* one sort key per order_by entry that names a column, in the sequence of the
\* entries (a string counting as a list of one entry), ascending, or
\* descending when the entry starts with '-'; an entry that names no column
\* adds no key, raises nothing and leaves the other keys as they are; and the
\* rows of an ungrouped get_many come back in that order.
C26_OrderingBestEffort ==
  \A t \in Tasks :
    (call[t].invoked /\ call[t].op \in {"get_one", "get_many"}) =>
      LET out == call[t].out
      IN /\ out.executed
         /\ out.exc \in {NoExc, "OperationalError", "ProgrammingError",
                         "MultipleResultsFound"}
         /\ OneKeyPerColumnEntry(out.stmt.order_by, call[t].args.order_by)
         /\ (out.exc = NoExc /\ out.stmt.group_by = << >>
               /\ call[t].args.aggregations = << >>) =>
              \A i, j \in 1..Len(out.list) :
                i < j => NotAfter(out.list[i], out.list[j], call[t].args.order_by)

\* A get_many ordered by ["-name", "invalid_field", "id"] has returned three
\* rows: Bob first, then the two Alices by ascending id.
C26_Witness ==
  \E t \in Tasks :
    /\ pc[t] = "done" /\ Ran(t, "get_many") /\ call[t].exc = NoExc
    /\ call[t].args.order_by =
         OrderList(<< <<"-", "name">>, <<"invalid_field">>, <<"id">> >>)
    /\ call[t].out.stmt.order_by =
         <<[field |-> "name", desc |-> TRUE], [field |-> "id", desc |-> FALSE]>>
    /\ Len(call[t].out.list) = 3
    /\ call[t].out.list[1].name = "Bob"
    /\ call[t].out.list[2].name = "Alice"
    /\ call[t].out.list[2].id < call[t].out.list[3].id

\* C27: a get_one that is not strict, with a filter or an order_by, never
\* raises MultipleResultsFound: its statement carries LIMIT 1, and it returns
\* one matching row that no other matching row precedes in the requested
\* order, or none when no row matches, however many rows match.
C27_NonStrictGetOne ==
  \A t \in Tasks :
    (Ran(t, "get_one") /\ ~call[t].args.strict
       /\ (call[t].args.filters.given \/ call[t].args.order_by.kind # "None")) =>
      LET out == call[t].out
          hit == Filtered(call[t].args, call[t].pre)
      IN /\ out.exc # "MultipleResultsFound"
         /\ out.executed /\ out.stmt.limit = 1
         /\ out.exc = NoExc =>
              IF hit = {} THEN out.kind = "none" /\ out.rows = {}
              ELSE /\ out.kind = "row"
                   /\ \E r \in hit :
                        /\ out.rows = {r}
                        /\ \A o \in hit : NotAfter(r, o, call[t].args.order_by)

\* A get_one that is not strict, by name Alice and ordered by "-id", has
\* returned the Alice with the highest id of three.
C27_Witness ==
  \E t \in Tasks :
    /\ pc[t] = "done" /\ Ran(t, "get_one") /\ ~call[t].args.strict
    /\ call[t].exc = NoExc
    /\ call[t].args.filters = Given(Set1("name", Scalar("Alice")))
    /\ call[t].args.order_by = OrderStr(<<"-", "id">>)
    /\ Cardinality(Filtered(call[t].args, call[t].pre)) = MaxRows
    /\ \E r \in call[t].pre : r.id = MaxRows /\ call[t].out.rows = {r}

\* The failures of the repository that are no store-layer failures.
UsageFailures ==
  {"NotFoundError", "EmptyFilterError", "EmptyValueError", "InvalidFieldError",
   "UnknowAggregationFunc"}

\* C28: when the work has raised a failure that is no store-layer failure,
\* the session sees neither a commit nor a rollback, only the close; the
\* caller gets that same failure, and the committed contents of the store are
\* those the call found.
C28_UsageFailureOnlyCloses ==
  \A t \in Tasks :
    (call[t].invoked /\ call[t].out.exc \in UsageFailures) =>
      /\ pc[t] \in {"close", "done"}
      /\ Entries(LogOf(t), "commit") = {}
      /\ Entries(LogOf(t), "rollback") = {}
      /\ call[t].exc = call[t].out.exc
      /\ committed = call[t].pre
      /\ pc[t] = "done" =>
           /\ Released(t)
           /\ Entries(LogOf(t), "close") = {Len(LogOf(t))}

\* A delete by an id no row has returned NotFoundError: its session saw the
\* DELETE and the close, nothing else.
C28_Witness ==
  \E t \in Tasks :
    /\ pc[t] = "done" /\ Ran(t, "delete") /\ call[t].args.id # 0
    /\ call[t].exc = "NotFoundError"
    /\ committed # {}
    /\ Len(LogOf(t)) = 2
    /\ LogOf(t)[1].op = "delete" /\ LogOf(t)[2].op = "close"


\* C29: the wrapper creates neither engine nor factory: as long as neither
\* init_db nor get_session was called there is no engine, no factory and no
\* session, and an invocation of a wrapped operation has failed with
\* TypeError before its method ran, holding no session; an invocation holds a
\* session only when the factory exists.  get_session leaves an engine and a
\* factory behind, and whatever is called, and however often, one engine and
\* one factory at most are ever created.
C29_FactoryOnlyFromInitOrGetSession ==
  /\ (creations.inits = 0 /\ creations.gets = 0) =>
       /\ ~engine /\ ~sessionmaker
       /\ creations.engines = 0 /\ creations.factories = 0
       /\ sessions = << >>
       /\ \A t \in Tasks :
            pc[t] # "idle" =>
              /\ pc[t] = "done" /\ call[t].exc = "TypeError"
              /\ call[t].session = 0 /\ ~call[t].invoked
  /\ \A t \in Tasks : call[t].session # 0 => sessionmaker
  /\ creations.gets > 0 => (engine /\ sessionmaker)
  /\ creations.engines = (IF engine THEN 1 ELSE 0)
  /\ creations.factories = (IF sessionmaker THEN 1 ELSE 0)
  /\ Len(sessions) <= nCalls

\* An invocation made before anything was initialized has failed with
\* TypeError and holds no session; get_session was called twice since, and
\* there is one engine and one factory.
C29_Witness ==
  \E t \in Tasks :
    /\ pc[t] = "done" /\ call[t].exc = "TypeError" /\ call[t].session = 0
    /\ creations.gets = 2 /\ creations.inits = 0
    /\ creations.engines = 1 /\ creations.factories = 1
    /\ Len(sessions) = 2
====
